---- MODULE Spec2Model ----
(***************************************************************************)
(* DeepClaude: the streaming clients (DeepSeekClient.chat,                 *)
(* ClaudeClient.chat) reading an upstream SSE body line by line, and the   *)
(* configuration holders the clients resolve their request descriptor      *)
(* from.                                                                   *)
(*                                                                         *)
(* Text is a sequence of one-character strings, so that Python's           *)
(* substring test (`"<think>" in content`) is computed, not assumed.       *)
(* A JSON value read with dict.get is a record [t, s]: absent key, null,   *)
(* or a string with its characters.                                        *)
(***************************************************************************)
EXTENDS Integers, Sequences, FiniteSets, TLC

VARIABLES
    client,               \* which chat generator runs: "deepseek" | "claude"
    is_origin_reasoning,  \* DeepSeekClient.chat argument
    provider_type,        \* ClaudeClient.chat: provider.type of the base model
    accumulated_content,  \* deepseek_client.py:81
    is_collecting_think,  \* deepseek_client.py:82
    pending,              \* lines of the current chunk not yet iterated
    pc,                   \* "read" | "lines" | "returned" | "closed"
    out,                  \* events yielded so far by the generator
    nread,                \* lines received from upstream so far
    done_seen,            \* history: a `data: [DONE]` line has been read
    skipped,              \* history: lines dropped unread by an except clause
    PROXY_URL,            \* environment variable read by BaseClient.__init__
    manager_model_config, \* ModelConfigManager._model_config
    MODEL_CONFIG,         \* the module global of app/config/model_config.py
    claude_client,        \* the ClaudeClient instance, once constructed
    deepseek_client,      \* the DeepSeekClient instance, once constructed
    calls,                \* history: the chat calls made and what each did
    loaded,               \* history: config of the last successful load_model_config
    nloads,               \* history: configurations handed to a setter so far
    raised,               \* error raised by the last operation, "" if none
    lookup,               \* the last query made on the configuration and its result
    base_client,          \* a BaseClient instance: its proxy_url
    req_pc,               \* position of _make_request: idle, posted, streaming, done, raised
    post,                 \* arguments of the last session.post
    request_log,          \* level of the proxy log line of the last _make_request
    response,             \* status and unread body of the upstream response
    yielded,              \* chunks _make_request has yielded for the last request
    request_error,        \* the exception _make_request raised
    nrequests,            \* requests made so far
    body,                 \* JSON body handed to get_and_validate_params
    params,               \* what get_and_validate_params returned or raised
    chat_args,            \* arguments of one ClaudeClient.chat call
    chat_data,            \* request body ClaudeClient.chat built from them
    messages,             \* the caller's message list, the object handed to each call
    nchats,               \* ClaudeClient.chat calls made with that list
    phase,                \* where one streaming request is: "reason", "answer", "done"
    streams,              \* what the two upstream calls of the request yield
    consumed,             \* events the request has taken from each call
    reasoning_buffer,     \* reasoning text collected for the answer prompt
    frames,               \* SSE frames written downstream, in order
    wire,                 \* an upstream byte stream, a place to cut it, and who reads it
    events_whole,         \* events of the chat call that gets the stream in one chunk
    events_split,         \* events of the chat call that gets it cut in two chunks
    running,              \* the chat calls in flight on one DeepSeekClient
    extractor             \* accumulated_content / is_collecting_think, per frame

streamVars == <<client, is_origin_reasoning, provider_type, accumulated_content,
                is_collecting_think, pending, pc, out, nread, done_seen, skipped>>

callVars == <<PROXY_URL, manager_model_config, MODEL_CONFIG, claude_client,
              deepseek_client, calls, loaded, nloads, raised>>

queryVars == <<lookup>>

requestVars == <<base_client, req_pc, post, request_log, response, yielded,
                 request_error, nrequests>>

paramVars == <<body, params>>

bodyVars == <<chat_args, chat_data, messages, nchats>>

splitVars == <<wire, events_whole, events_split>>

twoVars == <<running, extractor>>

pipeVars == <<phase, streams, consumed, reasoning_buffer, frames>>

laterVars == <<splitVars, twoVars, pipeVars>>

auxVars == <<queryVars, requestVars, paramVars, bodyVars, laterVars>>

vars == <<streamVars, callVars, auxVars>>

----------------------------------------------------------------------------
(* Bounds *)

MaxLines == 3    \* upstream lines fed to one chat call

MaxCalls == 2    \* chat calls made on the constructed clients

MaxLoads == 2    \* configurations handed to load_model_config / set_model_config

MaxList == 2     \* entries in the base_models and deep_models lists of a model.yaml

MaxRequests == 2 \* calls of _make_request on one client

MaxChunks == 2   \* chunks of one response body

MaxTwoChunks == 2 \* chunks each of two concurrent calls reads

MaxChats == 2    \* ClaudeClient.chat calls made with one message list

MaxReasonLines == 3 \* upstream lines of the reason call of one request

MaxAnswerLines == 2 \* upstream lines of the answer call of one request

----------------------------------------------------------------------------
(* Text and JSON values *)

OpenTag == <<"<", "t", "h", "i", "n", "k", ">">>

CloseTag == <<"<", "/", "t", "h", "i", "n", "k", ">">>

\* Python `sub in s` on strings
Contains(sub, s) ==
    \E i \in 0..(Len(s) - Len(sub)) : SubSeq(s, i + 1, i + Len(sub)) = sub

Absent == [t |-> "absent", s |-> <<>>]

Null == [t |-> "null", s |-> <<>>]

Str(s) == [t |-> "str", s |-> s]

\* Python truthiness of what dict.get returns: None and "" are falsy
Truthy(v) == v.t = "str" /\ v.s # <<>>

\* `dict.get(key) is None`: key absent or JSON null
IsNone(v) == v.t \in {"absent", "null"}

Ev(kind, text) == [kind |-> kind, text |-> text]

----------------------------------------------------------------------------
(* Upstream lines.  kind: "blank" (a line not starting with `data: `),     *)
(* "done" (`data: [DONE]`), "bad" (`data: ` followed by invalid JSON),     *)
(* "json" (`data: ` followed by a JSON object).  A JSON object is either   *)
(* an OpenAI-style chunk {"choices":[{"delta":{reasoning_content,content}}]}*)
(* (shape "choices") or an Anthropic event {"type":..,"delta":{"text":..}} *)
(* (shape "event").  Valid JSON of other forms: {"choices": []} (shape     *)
(* "empty_choices"), {"choices": [{}]} (shape "no_delta"), a value that is *)
(* not an object and is truthy, such as 5 (shape "scalar"), and null       *)
(* (shape "null").                                                         *)

Line(kind, shape, rc, c, typ, text) ==
    [kind |-> kind, shape |-> shape, rc |-> rc, c |-> c, typ |-> typ, text |-> text]

BlankLine == Line("blank", "none", Absent, Absent, "none", Absent)

DoneLine == Line("done", "none", Absent, Absent, "none", Absent)

BadLine == Line("bad", "none", Absent, Absent, "none", Absent)

DeltaLine(rc, c) == Line("json", "choices", rc, c, "none", Absent)

EventLine(typ, text) == Line("json", "event", Absent, Absent, typ, text)

EmptyChoicesLine == Line("json", "empty_choices", Absent, Absent, "none", Absent)

NoDeltaLine == Line("json", "no_delta", Absent, Absent, "none", Absent)

ScalarLine == Line("json", "scalar", Absent, Absent, "none", Absent)

NullLine == Line("json", "null", Absent, Absent, "none", Absent)

ControlLines == {BlankLine, DoneLine, BadLine}

\* valid JSON without a delta
OtherJsonLines == {EmptyChoicesLine, NoDeltaLine, ScalarLine, NullLine}

\* contents a tag-sniffed upstream may send in one delta
TagTexts ==
    { <<"x">>,
      OpenTag,
      CloseTag,
      OpenTag \o <<"h", "m", "m">> \o CloseTag,
      <<"<", "t", "h", "i">>,
      <<"n", "k", ">">>,
      <<"<", "/", "t", "h">>,
      <<"i", "n", "k", ">">>,
      <<"a">> \o OpenTag,
      CloseTag \o <<"b">> }

NativeLines ==
    ControlLines \cup {EmptyChoicesLine, ScalarLine} \cup
    { DeltaLine(rc, c) : rc \in {Absent, Null, Str(<<>>), Str(<<"r">>)},
                         c \in {Absent, Null, Str(<<>>), Str(<<"x">>)} }

TagLines ==
    ControlLines \cup {EmptyChoicesLine, ScalarLine} \cup
    { DeltaLine(Absent, c) : c \in {Absent, Null, Str(<<>>)} \cup {Str(t) : t \in TagTexts} }

OpenAILines ==
    ControlLines \cup OtherJsonLines \cup
    { DeltaLine(Absent, c) : c \in {Absent, Null, Str(<<>>), Str(<<"x">>)} }

AnthropicLines ==
    ControlLines \cup OtherJsonLines \cup
    { EventLine(typ, text) : typ \in {"content_block_delta", "message_start"},
                             text \in {Absent, Str(<<>>), Str(<<"x">>)} }

ProviderType == {"anthropic", "openrouter", "openai-compatible"}

\* a chunk: 1..k lines
Chunks(S, k) == UNION { [1..n -> S] : n \in 1..k }

----------------------------------------------------------------------------
(* Configuration: app/config/model_config.py *)

None == "None"

NoConfig == [none |-> TRUE]

NoData == [none |-> TRUE]

NoClient == [none |-> TRUE]

Provider(name, type, base_url, api_key, use_proxy) ==
    [name |-> name, type |-> type, base_url |-> base_url, api_key |-> api_key,
     use_proxy |-> use_proxy]

BaseModel(name, model_id, provider, context, max_tokens) ==
    [name |-> name, model_id |-> model_id, provider |-> provider,
     context |-> context, max_tokens |-> max_tokens]

DeepModel(name, reason_model, answer_model, origin) ==
    [name |-> name, reason_model |-> reason_model, answer_model |-> answer_model,
     is_origin_reasoning |-> origin]

\* ProviderConfig: `type: ProviderType` and _validate_provider_type
ValidProviderConfig(p) == p.type \in ProviderType

\* BaseModelConfig: context and max_tokens are Field(gt=0)
ValidBaseModelConfig(m) == m.context > 0 /\ m.max_tokens > 0

Names(list) == {list[i].name : i \in DOMAIN list}

\* len(names) != len(set(names)) raises
CheckUniqueProviderNames(data) ==
    Len(data.providers) = Cardinality(Names(data.providers))

CheckUniqueBaseModelNames(data) ==
    Len(data.base_models) = Cardinality(Names(data.base_models))

\* variant: the providers of the base models are not looked up
CheckReferenceExistenceNoProvider(data) ==
    \A i \in DOMAIN data.deep_models :
        /\ data.deep_models[i].reason_model \in Names(data.base_models)
        /\ data.deep_models[i].answer_model \in Names(data.base_models)

CheckReferenceExistence(data) ==
    /\ \A i \in DOMAIN data.base_models :
          data.base_models[i].provider \in Names(data.providers)
    /\ \A i \in DOMAIN data.deep_models :
          /\ data.deep_models[i].reason_model \in Names(data.base_models)
          /\ data.deep_models[i].answer_model \in Names(data.base_models)

\* {x.name: x for x in list}: a later entry replaces an earlier one of the
\* same name
NameMap(list) ==
    [n \in Names(list) |->
        list[CHOOSE i \in DOMAIN list :
                /\ list[i].name = n
                /\ \A j \in DOMAIN list : j > i => list[j].name # n]]

Max(a, b) == IF a >= b THEN a ELSE b

\* _build_maps reads each deep model's base models through get_base_model,
\* which raises for a name that is not in _base_model_map
BuildMapsRaises(data) ==
    \E i \in DOMAIN data.deep_models :
        \/ data.deep_models[i].reason_model \notin Names(data.base_models)
        \/ data.deep_models[i].answer_model \notin Names(data.base_models)

\* _build_maps
BuildMaps(data) ==
    LET base_model_map == NameMap(data.base_models)
        deep_model_map == NameMap(data.deep_models)
    IN  [providers |-> data.providers,
         base_models |-> data.base_models,
         deep_models |-> data.deep_models,
         provider_map |-> NameMap(data.providers),
         base_model_map |-> base_model_map,
         deep_model_map |-> deep_model_map,
         context_map |->
            [n \in DOMAIN deep_model_map |->
                Max(base_model_map[deep_model_map[n].reason_model].context,
                    base_model_map[deep_model_map[n].answer_model].context)]]

\* ModelConfig(**data): the field validation and the model validators, in
\* the order of their definition; the object exists only if none raises
ModelConfig(data) ==
    IF /\ \A i \in DOMAIN data.providers : ValidProviderConfig(data.providers[i])
       /\ \A i \in DOMAIN data.base_models : ValidBaseModelConfig(data.base_models[i])
       /\ CheckUniqueProviderNames(data)
       /\ CheckUniqueBaseModelNames(data)
       /\ CheckReferenceExistence(data)
       /\ ~BuildMapsRaises(data)
    THEN [ok |-> TRUE, value |-> BuildMaps(data)]
    ELSE [ok |-> FALSE, value |-> NoConfig]

GetBaseModel(cfg, name) ==
    IF name \in DOMAIN cfg.base_model_map
    THEN [ok |-> TRUE, value |-> cfg.base_model_map[name]]
    ELSE [ok |-> FALSE, value |-> NoConfig]

GetProvider(cfg, name) ==
    IF name \in DOMAIN cfg.provider_map
    THEN [ok |-> TRUE, value |-> cfg.provider_map[name]]
    ELSE [ok |-> FALSE, value |-> NoConfig]

\* variant: base_url and api_key change places in the tuple
GetModelRequestInfoSwapped(cfg, model_name) ==
    LET base_model == GetBaseModel(cfg, model_name)
    IN  IF ~base_model.ok THEN [ok |-> FALSE, info |-> <<>>]
        ELSE LET provider == GetProvider(cfg, base_model.value.provider)
             IN  IF ~provider.ok THEN [ok |-> FALSE, info |-> <<>>]
                 ELSE [ok |-> TRUE,
                       info |-> << base_model.value.model_id,
                                   provider.value.api_key,
                                   provider.value.base_url,
                                   provider.value.type,
                                   provider.value.use_proxy >>]

\* get_model_request_info: (model_id, base_url, api_key, type, use_proxy)
GetModelRequestInfo(cfg, model_name) ==
    LET base_model == GetBaseModel(cfg, model_name)
    IN  IF ~base_model.ok THEN [ok |-> FALSE, info |-> <<>>]
        ELSE LET provider == GetProvider(cfg, base_model.value.provider)
             IN  IF ~provider.ok THEN [ok |-> FALSE, info |-> <<>>]
                 ELSE [ok |-> TRUE,
                       info |-> << base_model.value.model_id,
                                   provider.value.base_url,
                                   provider.value.api_key,
                                   provider.value.type,
                                   provider.value.use_proxy >>]

\* ModelConfigManager.get_model_config
ManagerGetModelConfig ==
    IF manager_model_config = NoConfig
    THEN [ok |-> FALSE, value |-> NoConfig]
    ELSE [ok |-> TRUE, value |-> manager_model_config]

\* model_config.get_model_config, the function DeepSeekClient imports
GetModelConfig ==
    IF MODEL_CONFIG = NoConfig
    THEN [ok |-> FALSE, value |-> NoConfig]
    ELSE [ok |-> TRUE, value |-> MODEL_CONFIG]

----------------------------------------------------------------------------
(* Configurations a model.yaml may hold *)

P1 == Provider("p1", "anthropic", "https://a", "k1", TRUE)

P2 == Provider("p2", "openai-compatible", "https://b", "k2", FALSE)

P3 == Provider("p3", "openrouter", "https://c", "k3", TRUE)

P1Again == Provider("p1", "openrouter", "https://d", "k4", FALSE)

PUnknownType == Provider("p4", "azure", "https://e", "k5", FALSE)

B1 == BaseModel("b1", "m1", "p1", 8, 4)

B2 == BaseModel("b2", "m2", "p2", 16, 4)

B3 == BaseModel("b3", "m3", "p3", 4, 2)

BZeroContext == BaseModel("b4", "m5", "p1", 0, 4)

D1 == DeepModel("d1", "b2", "b1", TRUE)

D2 == DeepModel("d2", "b2", "b2", FALSE)

D3 == DeepModel("d3", "b3", "b2", TRUE)

DUnknownReason == DeepModel("d4", "b9", "b2", TRUE)

ProviderLists == { <<P1, P2>>, <<P2, P3>>, <<P1, P1Again>>, <<P2, PUnknownType>> }

BaseModelLists == { <<B1, B2>>, <<B2, B3>>, <<B2, BZeroContext>> }

DeepModelLists == { <<D1, D2>>, <<D2, D3>>, <<DUnknownReason>> }

RawConfigs ==
    {NoData} \cup
    { [providers |-> ps, base_models |-> bs, deep_models |-> ds] :
        ps \in ProviderLists, bs \in BaseModelLists, ds \in DeepModelLists }

BaseModelNames == {"b1", "b2", "b3", "b9"}

----------------------------------------------------------------------------
(* Loading the configuration, constructing the clients, starting a call *)

\* load_model_config -> ModelConfigManager.set_model_config: the class
\* attribute is assigned only if ModelConfig(**data) returns
\* variant: the holder is cleared before the new config is validated
LoadModelConfigClearsFirst(data) ==
    /\ nloads < MaxLoads
    /\ nloads' = nloads + 1
    /\ IF data = NoData
       THEN /\ raised' = "Config file is empty"
            /\ UNCHANGED <<manager_model_config, loaded>>
       ELSE LET r == ModelConfig(data)
            IN  IF r.ok
                THEN /\ manager_model_config' = r.value
                     /\ loaded' = r.value
                     /\ raised' = ""
                ELSE /\ raised' = "ValidationError"
                     /\ manager_model_config' = NoConfig
                     /\ UNCHANGED loaded
    /\ UNCHANGED <<PROXY_URL, MODEL_CONFIG, claude_client, deepseek_client, calls>>

LoadModelConfig(data) ==
    /\ nloads < MaxLoads
    /\ nloads' = nloads + 1
    /\ IF data = NoData
       THEN /\ raised' = "Config file is empty"
            /\ UNCHANGED <<manager_model_config, loaded>>
       ELSE LET r == ModelConfig(data)
            IN  IF r.ok
                THEN /\ manager_model_config' = r.value
                     /\ loaded' = r.value
                     /\ raised' = ""
                ELSE /\ raised' = "ValidationError"
                     /\ UNCHANGED <<manager_model_config, loaded>>
    /\ UNCHANGED <<PROXY_URL, MODEL_CONFIG, claude_client, deepseek_client, calls>>

\* model_config.set_model_config (no caller under src/)
SetModelConfig(data) ==
    /\ data # NoData
    /\ nloads < MaxLoads
    /\ nloads' = nloads + 1
    /\ LET r == ModelConfig(data)
       IN  IF r.ok
           THEN MODEL_CONFIG' = r.value /\ raised' = ""
           ELSE MODEL_CONFIG' = MODEL_CONFIG /\ raised' = "ValidationError"
    /\ UNCHANGED <<PROXY_URL, manager_model_config, claude_client, deepseek_client,
                   calls, loaded>>

\* ClaudeClient(): BaseClient.__init__, then ModelConfigManager.get_model_config()
NewClaudeClient ==
    /\ claude_client = NoClient
    /\ LET r == ManagerGetModelConfig
       IN  IF r.ok
           THEN /\ claude_client' = [proxy_url |-> PROXY_URL, model_config |-> r.value]
                /\ raised' = ""
           ELSE /\ claude_client' = claude_client
                /\ raised' = "Model config not initialized"
    /\ UNCHANGED <<PROXY_URL, manager_model_config, MODEL_CONFIG, deepseek_client,
                   calls, loaded, nloads>>

\* DeepSeekClient(): BaseClient.__init__, then model_config.get_model_config()
NewDeepSeekClient ==
    /\ deepseek_client = NoClient
    /\ LET r == GetModelConfig
       IN  IF r.ok
           THEN /\ deepseek_client' = [proxy_url |-> PROXY_URL, model_config |-> r.value]
                /\ raised' = ""
           ELSE /\ deepseek_client' = deepseek_client
                /\ raised' = "Model config not initialized"
    /\ UNCHANGED <<PROXY_URL, manager_model_config, MODEL_CONFIG, claude_client,
                   calls, loaded, nloads>>

\* Python `a, b, .. = t` with n targets: ValueError unless len(t) == n
Unpacks(t, n) == Len(t) = n

\* variant: the client's proxy is used whatever use_proxy says
MakeRequestPostAlwaysProxy(self, api_url, use_proxy) ==
    [url |-> api_url, use_proxy |-> use_proxy, proxy |-> self.proxy_url]

\* BaseClient._make_request up to session.post (base_client.py:62-81)
MakeRequestPost(self, api_url, use_proxy) ==
    [url |-> api_url, use_proxy |-> use_proxy,
     proxy |-> IF use_proxy THEN self.proxy_url ELSE None]

\* what one chat call did before reading the response
Call(who, base_model, outcome, posts) ==
    [client |-> who, base_model |-> base_model, outcome |-> outcome, posts |-> posts]

\* DeepSeekClient.chat, deepseek_client.py:63-84: four names are bound to the
\* five values of get_model_request_info; _make_request is given no use_proxy
DeepSeekChatStart(self, base_model) ==
    LET r == GetModelRequestInfo(self.model_config, base_model)
    IN  IF ~r.ok THEN Call("deepseek", base_model, "ValueError", <<>>)
        ELSE IF ~Unpacks(r.info, 4) THEN Call("deepseek", base_model, "ValueError", <<>>)
        ELSE Call("deepseek", base_model, "posted",
                  <<MakeRequestPost(self, r.info[2], FALSE)>>)

\* ClaudeClient.chat, claude_client.py:45-127
ClaudeChatStart(self, base_model) ==
    LET r == GetModelRequestInfo(self.model_config, base_model)
    IN  IF ~r.ok THEN Call("claude", base_model, "ValueError", <<>>)
        ELSE IF ~Unpacks(r.info, 5) THEN Call("claude", base_model, "ValueError", <<>>)
        ELSE IF r.info[4] \notin ProviderType
             THEN Call("claude", base_model, "ValueError", <<>>)
        ELSE Call("claude", base_model, "posted",
                  <<MakeRequestPost(self, r.info[2], r.info[5])>>)

DeepSeekChatCall(base_model) ==
    /\ deepseek_client # NoClient
    /\ Len(calls) < MaxCalls
    /\ LET c == DeepSeekChatStart(deepseek_client, base_model)
       IN  /\ calls' = Append(calls, c)
           /\ raised' = IF c.outcome = "posted" THEN "" ELSE c.outcome
    /\ UNCHANGED <<PROXY_URL, manager_model_config, MODEL_CONFIG, claude_client,
                   deepseek_client, loaded, nloads>>

ClaudeChatCall(base_model) ==
    /\ claude_client # NoClient
    /\ Len(calls) < MaxCalls
    /\ LET c == ClaudeChatStart(claude_client, base_model)
       IN  /\ calls' = Append(calls, c)
           /\ raised' = IF c.outcome = "posted" THEN "" ELSE c.outcome
    /\ UNCHANGED <<PROXY_URL, manager_model_config, MODEL_CONFIG, claude_client,
                   deepseek_client, loaded, nloads>>

\* no stream is being read
StreamIdle ==
    /\ client = "claude"
    /\ is_origin_reasoning = FALSE
    /\ provider_type = "anthropic"
    /\ accumulated_content = <<>>
    /\ is_collecting_think = FALSE
    /\ pending = <<>>
    /\ pc = "closed"
    /\ out = <<>>
    /\ nread = 0
    /\ done_seen = FALSE
    /\ skipped = <<>>

\* process start: nothing loaded, no client constructed
CallIdle ==
    /\ manager_model_config = NoConfig
    /\ MODEL_CONFIG = NoConfig
    /\ claude_client = NoClient
    /\ deepseek_client = NoClient
    /\ calls = <<>>
    /\ loaded = NoConfig
    /\ nloads = 0
    /\ raised = ""

\* no query made yet
NoLookup == [op |-> "", name |-> "", ok |-> TRUE, value |-> NoConfig, error |-> ""]

QueryIdle == lookup = NoLookup

NoPost == [none |-> TRUE]

NoResponse == [none |-> TRUE]

NoError == [none |-> TRUE]

RequestIdle ==
    /\ base_client = NoClient
    /\ req_pc = "idle"
    /\ post = NoPost
    /\ request_log = ""
    /\ response = NoResponse
    /\ yielded = <<>>
    /\ request_error = NoError
    /\ nrequests = 0

NoBody == [none |-> TRUE]

NoParams == [none |-> TRUE]

ParamIdle == body = NoBody /\ params = NoParams

NoArgs == [none |-> TRUE]

NoChatData == [none |-> TRUE]

BodyIdle ==
    /\ chat_args = NoArgs
    /\ chat_data = NoChatData
    /\ messages = <<>>
    /\ nchats = 0

NoWire == [none |-> TRUE]

NoEvents == [none |-> TRUE]

SplitIdle == wire = NoWire /\ events_whole = NoEvents /\ events_split = NoEvents

TwoIdle == running = <<>> /\ extractor = <<>>

NoStreams == [none |-> TRUE]

PipeIdle ==
    /\ phase = "idle"
    /\ streams = NoStreams
    /\ consumed = [reason |-> 0, answer |-> 0]
    /\ reasoning_buffer = <<>>
    /\ frames = <<>>

LaterIdle == SplitIdle /\ TwoIdle /\ PipeIdle

AuxIdle == QueryIdle /\ RequestIdle /\ ParamIdle /\ BodyIdle /\ LaterIdle

InitCall ==
    /\ PROXY_URL \in {None, "http://proxy"}
    /\ CallIdle
    /\ StreamIdle
    /\ AuxIdle

NextCall ==
    \/ \E data \in RawConfigs : LoadModelConfig(data) /\ UNCHANGED <<streamVars, auxVars>>
    \/ \E data \in RawConfigs : SetModelConfig(data) /\ UNCHANGED <<streamVars, auxVars>>
    \/ NewClaudeClient /\ UNCHANGED <<streamVars, auxVars>>
    \/ NewDeepSeekClient /\ UNCHANGED <<streamVars, auxVars>>
    \/ \E b \in BaseModelNames : ClaudeChatCall(b) /\ UNCHANGED <<streamVars, auxVars>>
    \/ \E b \in BaseModelNames : DeepSeekChatCall(b) /\ UNCHANGED <<streamVars, auxVars>>

SpecCall == InitCall /\ [][NextCall]_vars

----------------------------------------------------------------------------
(* The configuration registry of one process: main.py loads model.yaml     *)
(* once at start-up (main.py:38-45, sys.exit(1) if the load raises) and    *)
(* the configuration is queried afterwards.                                *)

B1Again == BaseModel("b1", "m4", "p2", 2, 2)

BUnknownProvider == BaseModel("b5", "m6", "p9", 8, 4)

D1Again == DeepModel("d1", "b1", "b1", FALSE)

DUnknownAnswer == DeepModel("d5", "b1", "b9", TRUE)

YamlProviderLists == ProviderLists \cup { <<>>, <<P2, P1>> }

BaseModelPool == {B1, B2, B1Again, BUnknownProvider}

DeepModelPool == {D1, D2, D1Again, DUnknownAnswer}

Lists(S) == UNION { [1..n -> S] : n \in 0..MaxList }

YamlConfigs ==
    {NoData} \cup
    { [providers |-> ps, base_models |-> bs, deep_models |-> ds] :
        ps \in YamlProviderLists, bs \in Lists(BaseModelPool),
        ds \in Lists(DeepModelPool) }

ProviderNames == {"p1", "p2", "p9"}

LookupBaseModelNames == {"b1", "b2", "b5", "b9"}

DeepModelNames == {"d1", "d2", "d5", "d9"}

\* variant: a name that is not in the map gets the first deep model
GetDeepModelDefault(cfg, name) ==
    IF name \in DOMAIN cfg.deep_model_map
    THEN [ok |-> TRUE, value |-> cfg.deep_model_map[name]]
    ELSE IF cfg.deep_models # <<>>
    THEN [ok |-> TRUE, value |-> cfg.deep_models[1]]
    ELSE [ok |-> FALSE, value |-> NoConfig]

\* get_deep_model
GetDeepModel(cfg, name) ==
    IF name \in DOMAIN cfg.deep_model_map
    THEN [ok |-> TRUE, value |-> cfg.deep_model_map[name]]
    ELSE [ok |-> FALSE, value |-> NoConfig]

\* main.py:38-45: the process ends if the start-up load raised
Exited == nloads > 0 /\ manager_model_config = NoConfig

Lookup(op, name, r, error) ==
    [op |-> op, name |-> name, ok |-> r.ok, value |-> r.value,
     error |-> IF r.ok THEN "" ELSE error]

\* load_model_config at start-up
StartupLoad(data) ==
    /\ nloads = 0
    /\ LoadModelConfig(data)
    /\ UNCHANGED lookup

configOther == <<streamVars, requestVars, paramVars, bodyVars, laterVars>>

\* ModelConfigManager.get_model_config()
QueryModelConfig ==
    /\ ~Exited
    /\ LET r == ManagerGetModelConfig
       IN  /\ lookup' = Lookup("get_model_config", "", r, "Model config not initialized")
           /\ raised' = IF r.ok THEN "" ELSE "Model config not initialized"
    /\ UNCHANGED <<PROXY_URL, manager_model_config, MODEL_CONFIG, claude_client,
                   deepseek_client, calls, loaded, nloads>>

\* one of the four name lookups on the loaded ModelConfig
QueryByName(op, name) ==
    /\ manager_model_config # NoConfig
    /\ LET cfg == manager_model_config
           r   == IF op = "get_deep_model" THEN GetDeepModel(cfg, name)
                  ELSE IF op = "get_base_model" THEN GetBaseModel(cfg, name)
                  ELSE IF op = "get_provider" THEN GetProvider(cfg, name)
                  ELSE LET i == GetModelRequestInfo(cfg, name)
                       IN  [ok |-> i.ok, value |-> [info |-> i.info]]
       IN  /\ lookup' = Lookup(op, name, r, "ValueError")
           /\ raised' = IF r.ok THEN "" ELSE "ValueError"
    /\ UNCHANGED <<PROXY_URL, manager_model_config, MODEL_CONFIG, claude_client,
                   deepseek_client, calls, loaded, nloads>>

InitConfig ==
    /\ PROXY_URL = None
    /\ CallIdle
    /\ StreamIdle
    /\ AuxIdle

NextConfig ==
    \/ \E data \in YamlConfigs : StartupLoad(data) /\ UNCHANGED configOther
    \/ QueryModelConfig /\ UNCHANGED configOther
    \/ \E n \in DeepModelNames : QueryByName("get_deep_model", n) /\ UNCHANGED configOther
    \/ \E n \in LookupBaseModelNames : QueryByName("get_base_model", n) /\ UNCHANGED configOther
    \/ \E n \in ProviderNames : QueryByName("get_provider", n) /\ UNCHANGED configOther
    \/ \E n \in LookupBaseModelNames :
          QueryByName("get_model_request_info", n) /\ UNCHANGED configOther

SpecConfig == InitConfig /\ [][NextConfig]_vars

----------------------------------------------------------------------------
(* BaseClient._make_request: one POST, then the response body as chunks.   *)

\* statuses an upstream may answer with
Statuses == {200, 201, 204, 300, 304, 400, 401, 404, 429, 500, 503}

\* chunk payloads, as text; iter_any may hand out an empty chunk
ChunkTexts == { <<>>, <<"a">>, <<"b", "c">> }

ResponseBodies == UNION { [1..n -> ChunkTexts] : n \in 0..MaxChunks }

RECURSIVE Flatten(_)
\* response.text(): the whole body
Flatten(chunks) ==
    IF chunks = <<>> THEN <<>> ELSE Head(chunks) \o Flatten(Tail(chunks))

\* aiohttp ClientResponse.ok: the status is below 400
ResponseOk(status) == status < 400

\* BaseClient.__init__: proxy_url is read from the environment
NewBaseClient ==
    /\ base_client = NoClient
    /\ base_client' = [proxy_url |-> PROXY_URL]
    /\ UNCHANGED <<req_pc, post, request_log, response, yielded, request_error,
                   nrequests>>

\* _make_request, lines 62-81: choose the proxy, log, post
MakeRequest(api_url, use_proxy) ==
    /\ base_client # NoClient
    /\ req_pc \in {"idle", "done", "raised"}
    /\ nrequests < MaxRequests
    /\ nrequests' = nrequests + 1
    /\ LET p == MakeRequestPost(base_client, api_url, use_proxy)
       IN  /\ post' = p
           /\ request_log' = IF p.proxy # None THEN "info"
                             ELSE IF use_proxy THEN "warning"
                             ELSE ""
    /\ req_pc' = "posted"
    /\ response' = NoResponse
    /\ yielded' = <<>>
    /\ request_error' = NoError
    /\ UNCHANGED base_client

\* lines 81-87: the response arrives; if it is not ok its text is read and
\* ClientError is raised with the status and the text
Respond(status, chunks) ==
    /\ req_pc = "posted"
    /\ IF ~ResponseOk(status)
       THEN /\ response' = [status |-> status, body |-> <<>>, text |-> Flatten(chunks)]
            /\ request_error' = [type |-> "ClientError", status |-> status,
                                 text |-> Flatten(chunks)]
            /\ req_pc' = "raised"
       ELSE /\ response' = [status |-> status, body |-> chunks, text |-> Flatten(chunks)]
            /\ request_error' = request_error
            /\ req_pc' = "streaming"
    /\ UNCHANGED <<base_client, post, request_log, yielded, nrequests>>

\* lines 90-92: one chunk of iter_any, yielded unless empty
IterAny ==
    /\ req_pc = "streaming"
    /\ response.body # <<>>
    /\ LET chunk == Head(response.body)
       IN  yielded' = IF chunk # <<>> THEN Append(yielded, chunk) ELSE yielded
    /\ response' = [response EXCEPT !.body = Tail(@)]
    /\ UNCHANGED <<base_client, req_pc, post, request_log, request_error, nrequests>>

\* the body is exhausted: the generator ends
IterEnd ==
    /\ req_pc = "streaming"
    /\ response.body = <<>>
    /\ req_pc' = "done"
    /\ UNCHANGED <<base_client, post, request_log, response, yielded, request_error,
                   nrequests>>

\* lines 94-107: a timeout or a transport error while connecting or reading
\* is logged and raised again
TransportError(type) ==
    /\ req_pc \in {"posted", "streaming"}
    /\ request_error' = [type |-> type]
    /\ req_pc' = "raised"
    /\ UNCHANGED <<base_client, post, request_log, response, yielded, nrequests>>

requestOther == <<streamVars, manager_model_config, MODEL_CONFIG, claude_client,
                  deepseek_client, calls, loaded, nloads, raised, PROXY_URL,
                  queryVars, paramVars, bodyVars, laterVars>>

InitRequest ==
    /\ PROXY_URL \in {None, "http://proxy"}
    /\ CallIdle
    /\ StreamIdle
    /\ AuxIdle

NextRequest ==
    \/ NewBaseClient /\ UNCHANGED requestOther
    \/ \E u \in {"https://a", "https://b"}, use_proxy \in BOOLEAN :
          MakeRequest(u, use_proxy) /\ UNCHANGED requestOther
    \/ \E status \in Statuses, chunks \in ResponseBodies :
          Respond(status, chunks) /\ UNCHANGED requestOther
    \/ IterAny /\ UNCHANGED requestOther
    \/ IterEnd /\ UNCHANGED requestOther
    \/ \E type \in {"ServerTimeoutError", "ClientError"} :
          TransportError(type) /\ UNCHANGED requestOther

SpecRequest == InitRequest /\ [][NextRequest]_vars

----------------------------------------------------------------------------
(* Request parameters: get_and_validate_params (main.py) and the body that *)
(* ClaudeClient.chat builds from them.  Numbers are kept in tenths, with   *)
(* the JSON / Python type they have.                                       *)

Missing == [t |-> "absent"]

PyInt(v) == [t |-> "int", v |-> v]

PyFloat(v) == [t |-> "float", v |-> v]

\* dict.get(key, default)
Get(field, default) == IF field = Missing THEN default ELSE field

\* isinstance(x, float): a JSON integer is a Python int, not a float
IsInstanceFloat(x) == x.t = "float"

Sonnet == <<"s", "o", "n", "n", "e", "t">>

ModelNames ==
    { Missing, Str(Sonnet), Str(<<"a", "-", "s", "o", "n", "n", "e", "t">>), Str(<<"s", "o", "n", "n", "e", "t", "-", "b">>),
      Str(<<"S", "o", "n", "n", "e", "t">>), Str(<<"s", "o", "n", "e", "t">>), Str(<<"d", "c">>), Str(<<>>) }

Temperatures ==
    { PyInt(-10), PyInt(0), PyInt(10), PyInt(20),
      PyFloat(-5), PyFloat(-1), PyFloat(0), PyFloat(3), PyFloat(5), PyFloat(10), PyFloat(11),
      PyFloat(15) }

RequestBodies ==
    { [model |-> m, temperature |-> t, top_p |-> p, presence_penalty |-> Missing,
       frequency_penalty |-> f, stream |-> st] :
        m \in ModelNames, t \in Temperatures \cup {Missing},
        p \in {Missing, PyFloat(7)}, f \in {Missing},
        st \in {Missing, [t |-> "bool", v |-> FALSE]} }

\* get_and_validate_params
GetAndValidateParams(b) ==
    LET temperature       == Get(b.temperature, PyFloat(5))
        top_p             == Get(b.top_p, PyFloat(9))
        presence_penalty  == Get(b.presence_penalty, PyFloat(0))
        frequency_penalty == Get(b.frequency_penalty, PyFloat(0))
        stream            == Get(b.stream, [t |-> "bool", v |-> TRUE])
    IN  IF /\ Contains(Sonnet, Get(b.model, Str(<<>>)).s)
           /\ \/ ~IsInstanceFloat(temperature)
              \/ temperature.v < 0
              \/ temperature.v > 10
        THEN [ok |-> FALSE, error |-> "ValueError"]
        ELSE [ok |-> TRUE,
              value |-> <<temperature, top_p, presence_penalty, frequency_penalty,
                          stream>>]

\* one call of get_and_validate_params on the request body
ValidateParams ==
    /\ params = NoParams
    /\ params' = GetAndValidateParams(body)
    /\ UNCHANGED body

paramOther == <<streamVars, callVars, queryVars, requestVars, bodyVars, laterVars>>

InitParams ==
    /\ PROXY_URL = None
    /\ CallIdle
    /\ StreamIdle
    /\ QueryIdle /\ RequestIdle /\ BodyIdle /\ LaterIdle
    /\ body \in RequestBodies
    /\ params = NoParams

NextParams == ValidateParams /\ UNCHANGED paramOther

SpecParams == InitParams /\ [][NextParams]_vars

Message(role, content) == [role |-> role, content |-> content]

SystemPrompts == {None, "", "be brief"}

ChatArgs ==
    { [provider_type |-> pt, model_id |-> "m1", messages |-> ms,
       model_arg |-> <<t, PyFloat(9), PyFloat(0), PyFloat(0)>>, system_prompt |-> sp] :
        pt \in ProviderType,
        ms \in { <<Message("user", "hi")>>,
                 <<Message("user", "hi"), Message("assistant", "yes")>> },
        t \in Temperatures, sp \in SystemPrompts }

\* Python truthiness of system_prompt: None and "" are falsy
HasSystemPrompt(sp) == sp # None /\ sp # ""

\* variant: the anthropic branch passes the temperature on as it is
ClaudeChatDataAnthropicUnclamped(a) ==
    LET inserted == IF HasSystemPrompt(a.system_prompt)
                    THEN <<Message("system", a.system_prompt)>> \o a.messages
                    ELSE a.messages
    IN  IF a.provider_type = "openrouter"
        THEN [model |-> "anthropic/claude-3.5-sonnet",
              messages |-> inserted,
              stream |-> TRUE,
              temperature |-> IF a.model_arg[1].v < 0 \/ a.model_arg[1].v > 10
                              THEN PyInt(10) ELSE a.model_arg[1],
              top_p |-> a.model_arg[2],
              presence_penalty |-> a.model_arg[3],
              frequency_penalty |-> a.model_arg[4]]
        ELSE IF a.provider_type = "openai-compatible"
        THEN [model |-> a.model_id,
              messages |-> inserted,
              stream |-> TRUE,
              temperature |-> IF a.model_arg[1].v < 0 \/ a.model_arg[1].v > 10
                              THEN PyInt(10) ELSE a.model_arg[1],
              top_p |-> a.model_arg[2],
              presence_penalty |-> a.model_arg[3],
              frequency_penalty |-> a.model_arg[4]]
        ELSE [model |-> a.model_id,
              messages |-> a.messages,
              max_tokens |-> 8192,
              stream |-> TRUE,
              temperature |-> a.model_arg[1],
              top_p |-> a.model_arg[2],
              system |-> IF HasSystemPrompt(a.system_prompt)
                         THEN a.system_prompt ELSE None]

\* ClaudeClient.chat, claude_client.py:50-118: the request body per provider
\* type (system |-> None stands for a body without the `system` key)
ClaudeChatData(a) ==
    LET inserted == IF HasSystemPrompt(a.system_prompt)
                    THEN <<Message("system", a.system_prompt)>> \o a.messages
                    ELSE a.messages
    IN  IF a.provider_type = "openrouter"
        THEN [model |-> "anthropic/claude-3.5-sonnet",
              messages |-> inserted,
              stream |-> TRUE,
              temperature |-> IF a.model_arg[1].v < 0 \/ a.model_arg[1].v > 10
                              THEN PyInt(10) ELSE a.model_arg[1],
              top_p |-> a.model_arg[2],
              presence_penalty |-> a.model_arg[3],
              frequency_penalty |-> a.model_arg[4]]
        ELSE IF a.provider_type = "openai-compatible"
        THEN [model |-> a.model_id,
              messages |-> inserted,
              stream |-> TRUE,
              temperature |-> IF a.model_arg[1].v < 0 \/ a.model_arg[1].v > 10
                              THEN PyInt(10) ELSE a.model_arg[1],
              top_p |-> a.model_arg[2],
              presence_penalty |-> a.model_arg[3],
              frequency_penalty |-> a.model_arg[4]]
        ELSE [model |-> a.model_id,
              messages |-> a.messages,
              max_tokens |-> 8192,
              stream |-> TRUE,
              temperature |-> IF a.model_arg[1].v < 0 \/ a.model_arg[1].v > 10
                              THEN PyInt(10) ELSE a.model_arg[1],
              top_p |-> a.model_arg[2],
              system |-> IF HasSystemPrompt(a.system_prompt)
                         THEN a.system_prompt ELSE None]

\* claude_client.py:62-63, 83-84: messages.insert(0, ...) changes the list
\* the caller passed; the anthropic branch leaves it alone
ClaudeChatMessages(a) ==
    IF a.provider_type \in {"openrouter", "openai-compatible"}
       /\ HasSystemPrompt(a.system_prompt)
    THEN <<Message("system", a.system_prompt)>> \o a.messages
    ELSE a.messages

\* ClaudeClient.chat builds `data` from its arguments; the caller's list is
\* the `messages` argument of every call
ClaudeChatBuild ==
    /\ chat_args # NoArgs
    /\ nchats < MaxChats
    /\ nchats' = nchats + 1
    /\ LET a == [chat_args EXCEPT !.messages = messages]
       IN  /\ chat_data' = ClaudeChatData(a)
           /\ messages' = ClaudeChatMessages(a)
    /\ UNCHANGED chat_args

bodyOther == <<streamVars, callVars, queryVars, requestVars, paramVars, laterVars>>

InitBody ==
    /\ PROXY_URL = None
    /\ CallIdle
    /\ StreamIdle
    /\ QueryIdle /\ RequestIdle /\ ParamIdle /\ LaterIdle
    /\ chat_args \in ChatArgs
    /\ chat_data = NoChatData
    /\ messages = chat_args.messages
    /\ nchats = 0

NextBody == ClaudeChatBuild /\ UNCHANGED bodyOther

SpecBody == InitBody /\ [][NextBody]_vars

----------------------------------------------------------------------------
(* DeepSeekClient *)

\* _process_think_tag_content: (is_complete, processed_content)
ProcessThinkTagContent(content) ==
    LET has_start == Contains(OpenTag, content)
        has_end   == Contains(CloseTag, content)
    IN  IF has_start /\ has_end THEN [is_complete |-> TRUE, content |-> content]
        ELSE IF has_start THEN [is_complete |-> FALSE, content |-> content]
        ELSE IF ~has_start /\ ~has_end THEN [is_complete |-> FALSE, content |-> content]
        ELSE [is_complete |-> TRUE, content |-> content]

\* variant: reasoning_content tested with `is not None` instead of truthiness
NativeEventsNotNone(delta) ==
    (IF ~IsNone(delta.rc) THEN <<Ev("reasoning", delta.rc.s)>> ELSE <<>>) \o
    (IF IsNone(delta.rc) /\ Truthy(delta.c) THEN <<Ev("content", delta.c.s)>> ELSE <<>>)

\* native mode, deepseek_client.py:103-117: the events one delta yields
NativeEvents(delta) ==
    (IF Truthy(delta.rc) THEN <<Ev("reasoning", delta.rc.s)>> ELSE <<>>) \o
    (IF IsNone(delta.rc) /\ Truthy(delta.c) THEN <<Ev("content", delta.c.s)>> ELSE <<>>)

\* variant: the ordinary-content branch yields "reasoning"
TagSniffPlainAsReasoning(delta, acc, collecting) ==
    IF ~Truthy(delta.c)
    THEN [events |-> <<>>, acc |-> acc, collecting |-> collecting]
    ELSE
      LET content == delta.c.s
          acc1    == acc \o content
      IN  IF Contains(OpenTag, content) /\ ~collecting
          THEN [events |-> <<Ev("reasoning", content)>>, acc |-> acc1, collecting |-> TRUE]
          ELSE IF collecting
          THEN IF Contains(CloseTag, content)
               THEN [events |-> <<Ev("reasoning", content), Ev("content", <<>>)>>,
                     acc |-> <<>>, collecting |-> FALSE]
               ELSE [events |-> <<Ev("reasoning", content)>>, acc |-> acc1,
                     collecting |-> collecting]
          ELSE [events |-> <<Ev("reasoning", content)>>, acc |-> acc1,
                collecting |-> collecting]

\* variant: the marker after the closing tag carries the delta's text again
TagSniffMarkerRepeatsText(delta, acc, collecting) ==
    IF ~Truthy(delta.c)
    THEN [events |-> <<>>, acc |-> acc, collecting |-> collecting]
    ELSE
      LET content == delta.c.s
          acc1    == acc \o content
      IN  IF Contains(OpenTag, content) /\ ~collecting
          THEN [events |-> <<Ev("reasoning", content)>>, acc |-> acc1, collecting |-> TRUE]
          ELSE IF collecting
          THEN IF Contains(CloseTag, content)
               THEN [events |-> <<Ev("reasoning", content), Ev("content", content)>>,
                     acc |-> <<>>, collecting |-> FALSE]
               ELSE [events |-> <<Ev("reasoning", content)>>, acc |-> acc1,
                     collecting |-> collecting]
          ELSE [events |-> <<Ev("content", content)>>, acc |-> acc1,
                collecting |-> collecting]

\* tag-sniff mode, deepseek_client.py:118-154.  The pair returned by
\* _process_think_tag_content(accumulated_content) is bound at lines 128-132
\* and read nowhere: the branches test the delta `content` alone.
TagSniff(delta, acc, collecting) ==
    IF ~Truthy(delta.c)
    THEN [events |-> <<>>, acc |-> acc, collecting |-> collecting]
    ELSE
      LET content   == delta.c.s
          acc1      == acc \o content
          processed == ProcessThinkTagContent(acc1)
      IN  IF Contains(OpenTag, content) /\ ~collecting
          THEN [events |-> <<Ev("reasoning", content)>>, acc |-> acc1, collecting |-> TRUE]
          ELSE IF collecting
          THEN IF Contains(CloseTag, content)
               THEN [events |-> <<Ev("reasoning", content), Ev("content", <<>>)>>,
                     acc |-> <<>>, collecting |-> FALSE]
               ELSE [events |-> <<Ev("reasoning", content)>>, acc |-> acc1,
                     collecting |-> collecting]
          ELSE [events |-> <<Ev("content", content)>>, acc |-> acc1,
                collecting |-> collecting]

\* `data and data.get("choices") and data["choices"][0].get("delta")`:
\* a delta object with no key is an empty dict and is falsy
HasDelta(line) ==
    line.shape = "choices" /\ ~(line.rc.t = "absent" /\ line.c.t = "absent")

\* variant: `[DONE]` skips the line (continue) instead of ending the generator
DeepSeekLineDoneContinues(line, native, acc, collecting) ==
    LET same == [events |-> <<>>, acc |-> acc, collecting |-> collecting]
    IN  IF line.kind = "blank" THEN same @@ [ctl |-> "next"]
        ELSE IF line.kind = "done" THEN same @@ [ctl |-> "next"]
        ELSE IF line.kind = "bad" THEN same @@ [ctl |-> "raise"]
        ELSE IF line.shape = "scalar" THEN same @@ [ctl |-> "raise"]
        ELSE IF ~HasDelta(line) THEN same @@ [ctl |-> "next"]
        ELSE IF native
             THEN [events |-> NativeEvents(line), acc |-> acc,
                   collecting |-> collecting, ctl |-> "next"]
             ELSE TagSniff(line, acc, collecting) @@ [ctl |-> "next"]

\* one iteration of `for line in lines`, deepseek_client.py:89-154.
\* ctl: "next" (go on with the next line), "return" (line 93),
\* "raise" (json.loads raises, or `data.get` raises AttributeError on a JSON
\* value that is not an object; caught at lines 156-159, outside the for)
DeepSeekLine(line, native, acc, collecting) ==
    LET same == [events |-> <<>>, acc |-> acc, collecting |-> collecting]
    IN  IF line.kind = "blank" THEN same @@ [ctl |-> "next"]
        ELSE IF line.kind = "done" THEN same @@ [ctl |-> "return"]
        ELSE IF line.kind = "bad" THEN same @@ [ctl |-> "raise"]
        ELSE IF line.shape = "scalar" THEN same @@ [ctl |-> "raise"]
        ELSE IF ~HasDelta(line) THEN same @@ [ctl |-> "next"]
        ELSE IF native
             THEN [events |-> NativeEvents(line), acc |-> acc,
                   collecting |-> collecting, ctl |-> "next"]
             ELSE TagSniff(line, acc, collecting) @@ [ctl |-> "next"]

----------------------------------------------------------------------------
(* ClaudeClient *)

\* one iteration of `for line in chunk_str.split("\n")`, claude_client.py:132-163
\* (json.JSONDecodeError is caught inside the iteration: continue).
\* ctl "abort": an exception other than JSONDecodeError leaves the generator:
\* AttributeError of `data.get` on a JSON value that is not an object,
\* IndexError of `[0]` on an empty `choices` list.
ClaudeLine(line, ptype) ==
    IF line.kind = "blank" THEN [events |-> <<>>, ctl |-> "next"]
    ELSE IF line.kind = "done" THEN [events |-> <<>>, ctl |-> "return"]
    ELSE IF line.kind = "bad" THEN [events |-> <<>>, ctl |-> "next"]
    ELSE IF line.shape \in {"scalar", "null"} THEN [events |-> <<>>, ctl |-> "abort"]
    ELSE IF ptype \in {"openrouter", "openai-compatible"}
    THEN \* data.get("choices", [{}])[0].get("delta", {}).get("content", "")
         IF line.shape = "empty_choices" THEN [events |-> <<>>, ctl |-> "abort"] ELSE
         LET content == IF line.shape = "choices" THEN line.c ELSE Absent
         IN  [events |-> IF Truthy(content) THEN <<Ev("answer", content.s)>> ELSE <<>>,
              ctl |-> "next"]
    ELSE \* anthropic: type == "content_block_delta", delta.text
         LET content == IF line.shape = "event" /\ line.typ = "content_block_delta"
                        THEN line.text ELSE Absent
         IN  [events |-> IF Truthy(content) THEN <<Ev("answer", content.s)>> ELSE <<>>,
              ctl |-> "next"]

----------------------------------------------------------------------------
(* The streaming loop of one chat call *)

\* state of chat at its `async for chunk in self._make_request(...)`:
\* deepseek_client.py:81-84, claude_client.py:124-127.  The loop is modelled
\* from the first chunk on; what chat does before it (resolving the request
\* descriptor and issuing the POST) is SpecCall.
Init ==
    /\ client \in {"deepseek", "claude"}
    /\ is_origin_reasoning \in BOOLEAN
    /\ provider_type \in ProviderType
    /\ (client = "deepseek" => provider_type = "openai-compatible")
    /\ (client = "claude" => is_origin_reasoning = FALSE)
    /\ accumulated_content = <<>>
    /\ is_collecting_think = FALSE
    /\ pending = <<>>
    /\ pc = "read"
    /\ out = <<>>
    /\ nread = 0
    /\ done_seen = FALSE
    /\ skipped = <<>>
    /\ PROXY_URL = None
    /\ CallIdle
    /\ AuxIdle

UpstreamLines ==
    IF client = "deepseek"
    THEN (IF is_origin_reasoning THEN NativeLines ELSE TagLines)
    ELSE (IF provider_type = "anthropic" THEN AnthropicLines ELSE OpenAILines)

\* deepseek_client.py:84-88: the next chunk arrives and is split into lines
DeepSeekReadChunk ==
    /\ client = "deepseek" /\ pc = "read" /\ nread < MaxLines
    /\ \E chunk \in Chunks(UpstreamLines, MaxLines - nread) :
         /\ pending' = chunk
         /\ nread' = nread + Len(chunk)
    /\ pc' = "lines"
    /\ UNCHANGED <<client, is_origin_reasoning, provider_type, accumulated_content,
                   is_collecting_think, out, done_seen, skipped>>

\* deepseek_client.py:89-159: one line of the chunk
DeepSeekLineStep ==
    /\ client = "deepseek" /\ pc = "lines" /\ pending # <<>>
    /\ LET line == Head(pending)
           r    == DeepSeekLine(line, is_origin_reasoning, accumulated_content,
                                is_collecting_think)
       IN  /\ out' = out \o r.events
           /\ accumulated_content' = r.acc
           /\ is_collecting_think' = r.collecting
           /\ done_seen' = (done_seen \/ line.kind = "done")
           /\ IF r.ctl = "return"
              THEN /\ pc' = "returned"
                   /\ pending' = Tail(pending)
                   /\ skipped' = skipped
              ELSE IF r.ctl = "raise"
              THEN \* the except clause ends the handling of this chunk
                   /\ pc' = "read"
                   /\ pending' = <<>>
                   /\ skipped' = skipped \o
                         [i \in 1..Len(Tail(pending)) |->
                             [line |-> Tail(pending)[i], after |-> line]]
              ELSE /\ pc' = IF Tail(pending) = <<>> THEN "read" ELSE "lines"
                   /\ pending' = Tail(pending)
                   /\ skipped' = skipped
    /\ UNCHANGED <<client, is_origin_reasoning, provider_type, nread>>

\* claude_client.py:125-130: the next chunk arrives; a chunk of white space
\* only is skipped
ClaudeReadChunk ==
    /\ client = "claude" /\ pc = "read" /\ nread < MaxLines
    /\ \E chunk \in Chunks(UpstreamLines, MaxLines - nread) :
         /\ nread' = nread + Len(chunk)
         /\ IF \A i \in 1..Len(chunk) : chunk[i].kind = "blank"
            THEN pending' = <<>> /\ pc' = "read"
            ELSE pending' = chunk /\ pc' = "lines"
    /\ UNCHANGED <<client, is_origin_reasoning, provider_type, accumulated_content,
                   is_collecting_think, out, done_seen, skipped>>

\* claude_client.py:132-163: one line of the chunk
ClaudeLineStep ==
    /\ client = "claude" /\ pc = "lines" /\ pending # <<>>
    /\ LET line == Head(pending)
           r    == ClaudeLine(line, provider_type)
       IN  /\ out' = out \o r.events
           /\ done_seen' = (done_seen \/ line.kind = "done")
           /\ pending' = Tail(pending)
           /\ pc' = IF r.ctl = "return" THEN "returned"
                    ELSE IF r.ctl = "abort" THEN "raised"
                    ELSE IF Tail(pending) = <<>> THEN "read" ELSE "lines"
    /\ UNCHANGED <<client, is_origin_reasoning, provider_type, accumulated_content,
                   is_collecting_think, nread, skipped>>

\* the server closes the body: the async for ends and the generator finishes
StreamClose ==
    /\ pc = "read"
    /\ pc' = "closed"
    /\ UNCHANGED <<client, is_origin_reasoning, provider_type, accumulated_content,
                   is_collecting_think, pending, out, nread, done_seen, skipped>>

Next ==
    \/ DeepSeekReadChunk /\ UNCHANGED <<callVars, auxVars>>
    \/ DeepSeekLineStep /\ UNCHANGED <<callVars, auxVars>>
    \/ ClaudeReadChunk /\ UNCHANGED <<callVars, auxVars>>
    \/ ClaudeLineStep /\ UNCHANGED <<callVars, auxVars>>
    \/ StreamClose /\ UNCHANGED <<callVars, auxVars>>

Spec == Init /\ [][Next]_vars

----------------------------------------------------------------------------
(* A chat call as a function of the chunks it reads *)

RECURSIVE DeepSeekLines(_, _, _, _)
\* deepseek_client.py:87-159: the lines of one chunk, inside one try.
\* ctl "return": the generator ended at [DONE]
DeepSeekLines(lines, native, acc, collecting) ==
    IF lines = <<>>
    THEN [events |-> <<>>, acc |-> acc, collecting |-> collecting, ctl |-> "next"]
    ELSE LET r == DeepSeekLine(Head(lines), native, acc, collecting)
         IN  IF r.ctl = "return"
             THEN [events |-> r.events, acc |-> r.acc, collecting |-> r.collecting,
                   ctl |-> "return"]
             ELSE IF r.ctl = "raise"
             THEN [events |-> r.events, acc |-> r.acc, collecting |-> r.collecting,
                   ctl |-> "next"]
             ELSE LET rest == DeepSeekLines(Tail(lines), native, r.acc, r.collecting)
                  IN  [events |-> r.events \o rest.events, acc |-> rest.acc,
                       collecting |-> rest.collecting, ctl |-> rest.ctl]

RECURSIVE DeepSeekChunks(_, _, _, _)
\* deepseek_client.py:84: the chunks one after the other
DeepSeekChunks(chunks, native, acc, collecting) ==
    IF chunks = <<>> THEN <<>>
    ELSE LET r == DeepSeekLines(Head(chunks), native, acc, collecting)
         IN  IF r.ctl = "return" THEN r.events
             ELSE r.events \o DeepSeekChunks(Tail(chunks), native, r.acc, r.collecting)

\* DeepSeekClient.chat from line 81 on: everything the call yields
DeepSeekChat(chunks, native) == DeepSeekChunks(chunks, native, <<>>, FALSE)

RECURSIVE ClaudeLines(_, _)
\* claude_client.py:132-163: the lines of one chunk
ClaudeLines(lines, ptype) ==
    IF lines = <<>> THEN [events |-> <<>>, ctl |-> "next"]
    ELSE LET r == ClaudeLine(Head(lines), ptype)
         IN  IF r.ctl # "next" THEN r
             ELSE LET rest == ClaudeLines(Tail(lines), ptype)
                  IN  [events |-> r.events \o rest.events, ctl |-> rest.ctl]

RECURSIVE ClaudeChat(_, _)
\* ClaudeClient.chat, streaming, from line 125 on: everything the call yields
ClaudeChat(chunks, ptype) ==
    IF chunks = <<>> THEN <<>>
    ELSE IF \A i \in DOMAIN Head(chunks) : Head(chunks)[i].kind = "blank"
    THEN ClaudeChat(Tail(chunks), ptype)
    ELSE LET r == ClaudeLines(Head(chunks), ptype)
         IN  IF r.ctl # "next" THEN r.events
             ELSE r.events \o ClaudeChat(Tail(chunks), ptype)

----------------------------------------------------------------------------
(* The upstream as bytes: each chunk is decoded and cut into lines on its  *)
(* own (deepseek_client.py:85-89, claude_client.py:128-132).               *)

DataPrefix == << "d", "a", "t", "a", ":", " " >>

DoneText == << "[", "D", "O", "N", "E", "]" >>

\* {"choices":[{"delta":{"content":"x"}}]}
ContentJson ==
    << "{", "\"", "c", "h", "o", "i", "c", "e", "s", "\"", ":", "[", "{",
       "\"", "d", "e", "l", "t", "a", "\"", ":", "{", "\"", "c", "o", "n",
       "t", "e", "n", "t", "\"", ":", "\"", "x", "\"", "}", "}", "]", "}" >>

\* {"choices":[{"delta":{"reasoning_content":"r"}}]}
ReasoningJson ==
    << "{", "\"", "c", "h", "o", "i", "c", "e", "s", "\"", ":", "[", "{",
       "\"", "d", "e", "l", "t", "a", "\"", ":", "{", "\"", "r", "e", "a",
       "s", "o", "n", "i", "n", "g", "_", "c", "o", "n", "t", "e", "n", "t",
       "\"", ":", "\"", "r", "\"", "}", "}", "]", "}" >>

\* {"type":"content_block_delta","delta":{"text":"x"}}
TextDeltaJson ==
    << "{", "\"", "t", "y", "p", "e", "\"", ":", "\"", "c", "o", "n", "t",
       "e", "n", "t", "_", "b", "l", "o", "c", "k", "_", "d", "e", "l", "t",
       "a", "\"", ",", "\"", "d", "e", "l", "t", "a", "\"", ":", "{", "\"",
       "t", "e", "x", "t", "\"", ":", "\"", "x", "\"", "}", "}" >>

\* json.loads on the payloads an upstream of this model sends: the three
\* objects above decode, and no proper prefix of them (nor of `[DONE]`, nor
\* the empty string) is valid JSON
JsonLoads(json_str) ==
    IF json_str = ContentJson THEN DeltaLine(Absent, Str(<<"x">>))
    ELSE IF json_str = ReasoningJson THEN DeltaLine(Str(<<"r">>), Absent)
    ELSE IF json_str = TextDeltaJson THEN EventLine("content_block_delta", Str(<<"x">>))
    ELSE BadLine

RECURSIVE Strip(_)
\* str.strip() for the white space of these streams
Strip(text) ==
    IF text = <<>> THEN text
    ELSE IF Head(text) \in {" ", "\n"} THEN Strip(Tail(text))
    ELSE IF text[Len(text)] \in {" ", "\n"} THEN Strip(SubSeq(text, 1, Len(text) - 1))
    ELSE text

RECURSIVE SplitLines(_, _)
\* chunk_str.splitlines() / chunk_str.split("\n"): the text cut at each "\n"
\* (the two differ in empty lines only, which are skipped either way);
\* cur is the line collected so far
SplitLines(text, cur) ==
    IF text = <<>> THEN <<cur>>
    ELSE IF Head(text) = "\n" THEN <<cur>> \o SplitLines(Tail(text), <<>>)
    ELSE SplitLines(Tail(text), Append(cur, Head(text)))

\* lines 90-95 of deepseek_client.py, 133-139 of claude_client.py: what one
\* line of text is to the loop
ParseLine(text, who) ==
    IF Len(text) < Len(DataPrefix) \/ SubSeq(text, 1, Len(DataPrefix)) # DataPrefix
    THEN BlankLine
    ELSE LET json_str == SubSeq(text, Len(DataPrefix) + 1, Len(text))
         IN  IF (IF who = "claude" THEN Strip(json_str) ELSE json_str) = DoneText
             THEN DoneLine
             ELSE JsonLoads(json_str)

\* one chunk of bytes as the lines the loop iterates
DecodeChunk(bytes, who) ==
    LET texts == SplitLines(bytes, <<>>)
    IN  [i \in DOMAIN texts |-> ParseLine(texts[i], who)]

\* _make_request yields the non-empty chunks (base_client.py:90-92); chat
\* handles each as it comes
ChatOnBytes(w, chunks) ==
    LET nonempty == SelectSeq(chunks, LAMBDA c : c # <<>>)
        decoded  == [i \in DOMAIN nonempty |-> DecodeChunk(nonempty[i], w.client)]
    IN  IF w.client = "deepseek" THEN DeepSeekChat(decoded, w.native)
        ELSE ClaudeChat(decoded, w.ptype)

Sse(json_str) == DataPrefix \o json_str \o <<"\n", "\n">>

\* who reads, and a stream of one event and the terminator
Wires ==
    { [client |-> "deepseek", native |-> TRUE, ptype |-> "openai-compatible",
       text |-> Sse(ReasoningJson) \o Sse(DoneText)],
      [client |-> "deepseek", native |-> TRUE, ptype |-> "openai-compatible",
       text |-> Sse(ContentJson) \o Sse(DoneText)],
      [client |-> "deepseek", native |-> FALSE, ptype |-> "openai-compatible",
       text |-> Sse(ContentJson) \o Sse(DoneText)],
      [client |-> "claude", native |-> FALSE, ptype |-> "openai-compatible",
       text |-> Sse(ContentJson) \o Sse(DoneText)],
      [client |-> "claude", native |-> FALSE, ptype |-> "openrouter",
       text |-> Sse(ContentJson) \o Sse(DoneText)],
      [client |-> "claude", native |-> FALSE, ptype |-> "anthropic",
       text |-> Sse(TextDeltaJson) \o Sse(DoneText)] }

\* the call reads the whole stream in one chunk
ChatWhole ==
    /\ wire # NoWire
    /\ events_whole = NoEvents
    /\ events_whole' = [events |-> ChatOnBytes(wire, <<wire.text>>)]
    /\ UNCHANGED <<wire, events_split>>

\* the call reads the same bytes in two chunks, cut after wire.cut bytes
ChatSplit ==
    /\ wire # NoWire
    /\ events_split = NoEvents
    /\ events_split' =
           [events |-> ChatOnBytes(wire, << SubSeq(wire.text, 1, wire.cut),
                                            SubSeq(wire.text, wire.cut + 1,
                                                   Len(wire.text)) >>)]
    /\ UNCHANGED <<wire, events_whole>>

splitOther == <<streamVars, callVars, queryVars, requestVars, paramVars, bodyVars,
                twoVars, pipeVars>>

InitSplit ==
    /\ PROXY_URL = None
    /\ CallIdle
    /\ StreamIdle
    /\ QueryIdle /\ RequestIdle /\ ParamIdle /\ BodyIdle /\ TwoIdle /\ PipeIdle
    /\ \E w \in Wires :
          \E cut \in 0..Len(w.text) : wire = w @@ [cut |-> cut]
    /\ events_whole = NoEvents
    /\ events_split = NoEvents

NextSplit ==
    \/ ChatWhole /\ UNCHANGED splitOther
    \/ ChatSplit /\ UNCHANGED splitOther

SpecSplit == InitSplit /\ [][NextSplit]_vars

----------------------------------------------------------------------------
(* Two chat calls in flight on one DeepSeekClient (the process has one     *)
(* client object, main.py:56), both in tag-sniff mode.  A step of a call   *)
(* is one chunk read together with the handling of its lines; the calls    *)
(* are interleaved between steps.                                          *)

Callers == {1, 2}

TwoChunks ==
    { <<DeltaLine(Absent, Str(OpenTag))>>,
      <<DeltaLine(Absent, Str(CloseTag))>>,
      <<DeltaLine(Absent, Str(<<"x">>))>>,
      <<BadLine, DeltaLine(Absent, Str(<<"x">>))>>,
      <<DoneLine>> }

TwoStreams == UNION { [1..n -> TwoChunks] : n \in 1..MaxTwoChunks }

\* variant: the two names are attributes of the client, one for all calls
FrameOfClient(c) == 1

\* accumulated_content and is_collecting_think are local names of chat
\* (deepseek_client.py:81-82): each call has them in its own generator frame
Frame(c) == c

\* lines 81-82: the call starts with an empty buffer, not collecting
ChatStart(c) ==
    /\ running[c].pc = "new"
    /\ running' = [running EXCEPT ![c].pc = "read"]
    /\ extractor' = [extractor EXCEPT ![Frame(c)] =
                        [accumulated_content |-> <<>>, is_collecting_think |-> FALSE]]

\* lines 84-159: the next chunk of call c
ChatReadChunk(c) ==
    /\ running[c].pc = "read"
    /\ running[c].upstream # <<>>
    /\ LET st == extractor[Frame(c)]
           r  == DeepSeekLines(Head(running[c].upstream), FALSE,
                               st.accumulated_content, st.is_collecting_think)
       IN  /\ running' = [running EXCEPT
                             ![c].out = @ \o r.events,
                             ![c].upstream = Tail(@),
                             ![c].pc = IF r.ctl = "return" THEN "returned" ELSE "read"]
           /\ extractor' = [extractor EXCEPT ![Frame(c)] =
                               [accumulated_content |-> r.acc,
                                is_collecting_think |-> r.collecting]]

\* the body of call c is exhausted
ChatClose(c) ==
    /\ running[c].pc = "read"
    /\ running[c].upstream = <<>>
    /\ running' = [running EXCEPT ![c].pc = "closed"]
    /\ UNCHANGED extractor

twoOther == <<streamVars, callVars, queryVars, requestVars, paramVars, bodyVars,
              splitVars, pipeVars>>

InitTwo ==
    /\ PROXY_URL = None
    /\ CallIdle
    /\ StreamIdle
    /\ QueryIdle /\ RequestIdle /\ ParamIdle /\ BodyIdle /\ SplitIdle /\ PipeIdle
    /\ running \in [Callers -> { [all |-> u, upstream |-> u, out |-> <<>>, pc |-> "new"] :
                                   u \in TwoStreams }]
    /\ extractor = [c \in Callers |->
                       [accumulated_content |-> <<>>, is_collecting_think |-> FALSE]]

NextTwo ==
    \/ \E c \in Callers : ChatStart(c) /\ UNCHANGED twoOther
    \/ \E c \in Callers : ChatReadChunk(c) /\ UNCHANGED twoOther
    \/ \E c \in Callers : ChatClose(c) /\ UNCHANGED twoOther

SpecTwo == InitTwo /\ [][NextTwo]_vars

----------------------------------------------------------------------------
(* One streaming request: DeepClaude.chat_completions_with_stream, which   *)
(* main.py:120-128 hands to StreamingResponse.  Its body is not part of    *)
(* the sources read here; the two-phase pipeline below follows the         *)
(* service description (Orchestrator, phases 1 and 2, failure handling),   *)
(* and is fed with what DeepSeekClient.chat and ClaudeClient.chat yield.   *)

SseFrame(kind, text) == [kind |-> kind, text |-> text]

\* the final frame with finish_reason "stop"
StopFrame == SseFrame("stop", <<>>)

\* `data: {"error": "..."}`
ErrorFrame == SseFrame("error", <<>>)

\* `data: [DONE]`
DoneFrame == SseFrame("done", <<>>)

\* a phase-1 pipeline that forwards every event of the reason call
PhaseOneFramesForwardAll(ev) ==
    IF ev.kind = "reasoning"
    THEN <<SseFrame("reasoning_content", ev.text)>>
    ELSE <<SseFrame("content", ev.text)>>

\* phase 1, step 4: a frame for each Reasoning event and for nothing else
PhaseOneFrames(ev) ==
    IF ev.kind = "reasoning"
    THEN <<SseFrame("reasoning_content", ev.text)>>
    ELSE <<>>

\* phase 2, step 4: a frame for each Answer event
PhaseTwoFrames(ev) ==
    IF ev.kind = "answer"
    THEN <<SseFrame("content", ev.text)>>
    ELSE <<>>

\* the end of reasoning as the reason call shows it: the empty content the
\* tag sniffer yields after `</think>`, or in native mode the first content
\* after some reasoning
EndOfReason(ev, native, buffer) ==
    /\ ev.kind = "content"
    /\ \/ ev.text = <<>>
       \/ native /\ buffer # <<>>

\* lines the reason upstream sends
ReasonLines(native) ==
    IF native
    THEN { DeltaLine(Str(<<"r">>), Absent), DeltaLine(Str(<<"s">>), Absent),
           DeltaLine(Absent, Str(<<"x">>)), DoneLine }
    ELSE { DeltaLine(Absent, Str(<<"x">>)), DeltaLine(Absent, Str(OpenTag)),
           DeltaLine(Absent, Str(CloseTag)), DoneLine }

\* lines the answer upstream sends
AnswerLines ==
    { DeltaLine(Absent, Str(<<"y">>)), DeltaLine(Absent, Str(<<"z">>)), DoneLine }

\* the request's two upstream calls, each reading its lines in one chunk
PipeStreams ==
    UNION { { [native |-> n,
               reason |-> DeepSeekChat(<<rl>>, n),
               answer |-> ClaudeChat(<<al>>, "openai-compatible")] :
                  rl \in Chunks(ReasonLines(n), MaxReasonLines),
                  al \in Chunks(AnswerLines, MaxAnswerLines) } :
            n \in BOOLEAN }

\* phase 1, steps 3-5: the next event of the reason call
ReasonEvent ==
    /\ phase = "reason"
    /\ consumed.reason < Len(streams.reason)
    /\ LET ev == streams.reason[consumed.reason + 1]
       IN  /\ consumed' = [consumed EXCEPT !.reason = @ + 1]
           /\ frames' = frames \o PhaseOneFrames(ev)
           /\ reasoning_buffer' = IF ev.kind = "reasoning"
                                  THEN Append(reasoning_buffer, ev.text)
                                  ELSE reasoning_buffer
           /\ phase' = IF EndOfReason(ev, streams.native, reasoning_buffer)
                       THEN "answer" ELSE "reason"
    /\ UNCHANGED streams

\* phase 1, step 5: Done, or the upstream body closes
ReasonEnd ==
    /\ phase = "reason"
    /\ consumed.reason = Len(streams.reason)
    /\ phase' = "answer"
    /\ UNCHANGED <<streams, consumed, reasoning_buffer, frames>>

\* failure handling: phase 1 fails before any reasoning (error frame and
\* [DONE], no phase 2) or after some (phase 2 with what was captured)
ReasonFail ==
    /\ phase = "reason"
    /\ IF reasoning_buffer = <<>>
       THEN /\ frames' = frames \o <<ErrorFrame, DoneFrame>>
            /\ phase' = "done"
       ELSE /\ frames' = frames
            /\ phase' = "answer"
    /\ UNCHANGED <<streams, consumed, reasoning_buffer>>

\* phase 2, step 4: the next event of the answer call
AnswerEvent ==
    /\ phase = "answer"
    /\ consumed.answer < Len(streams.answer)
    /\ consumed' = [consumed EXCEPT !.answer = @ + 1]
    /\ frames' = frames \o PhaseTwoFrames(streams.answer[consumed.answer + 1])
    /\ UNCHANGED <<phase, streams, reasoning_buffer>>

\* phase 2, step 5: the final frame, then the terminator
AnswerEnd ==
    /\ phase = "answer"
    /\ consumed.answer = Len(streams.answer)
    /\ frames' = frames \o <<StopFrame, DoneFrame>>
    /\ phase' = "done"
    /\ UNCHANGED <<streams, consumed, reasoning_buffer>>

\* failure handling: phase 2 fails; the error is surfaced
AnswerFail ==
    /\ phase = "answer"
    /\ frames' = frames \o <<ErrorFrame, DoneFrame>>
    /\ phase' = "done"
    /\ UNCHANGED <<streams, consumed, reasoning_buffer>>

pipeOther == <<streamVars, callVars, queryVars, requestVars, paramVars, bodyVars,
               splitVars, twoVars>>

InitPipe ==
    /\ PROXY_URL = None
    /\ CallIdle
    /\ StreamIdle
    /\ QueryIdle /\ RequestIdle /\ ParamIdle /\ BodyIdle /\ SplitIdle /\ TwoIdle
    /\ phase = "reason"
    /\ streams \in PipeStreams
    /\ consumed = [reason |-> 0, answer |-> 0]
    /\ reasoning_buffer = <<>>
    /\ frames = <<>>

NextPipe ==
    \/ ReasonEvent /\ UNCHANGED pipeOther
    \/ ReasonEnd /\ UNCHANGED pipeOther
    \/ ReasonFail /\ UNCHANGED pipeOther
    \/ AnswerEvent /\ UNCHANGED pipeOther
    \/ AnswerEnd /\ UNCHANGED pipeOther
    \/ AnswerFail /\ UNCHANGED pipeOther

SpecPipe == InitPipe /\ [][NextPipe]_vars

----------------------------------------------------------------------------
(* Properties of the streaming loop *)

TagMode == client = "deepseek" /\ ~is_origin_reasoning

NativeMode == client = "deepseek" /\ is_origin_reasoning

\* a line is being iterated in this step
AtLine == pc = "lines" /\ pending # <<>>

\* C1: in one DeepSeekClient.chat call the end of reasoning is signalled at
\* most once, and no 'reasoning' event is yielded after a 'content' event.
C1_EndOfReasoningOnce ==
    client = "deepseek" =>
        /\ \A i, j \in DOMAIN out :
              (i < j /\ out[i].kind = "content") => out[j].kind # "reasoning"
        /\ Cardinality({i \in DOMAIN out : out[i] = Ev("content", <<>>)}) <= 1

\* C2: in tag-sniff mode an opening tag that arrives split across deltas is
\* recognised from the accumulated buffer: once the buffer holds `<think>`,
\* the text has been emitted as reasoning.  (Stated for the opening tag, the
\* first of the two tags the claim names.)
C2_SplitTagRecognised ==
    (TagMode /\ Contains(OpenTag, accumulated_content)) =>
        \E i \in DOMAIN out : out[i].kind = "reasoning"

\* C3: in tag-sniff mode a delta containing `</think>`, received while
\* collecting or itself holding the `<think>` too, is emitted as 'reasoning',
\* is followed by the ('content', "") marker and leaves the extractor OUTSIDE.
C3_CloseTagEndsReasoning ==
    [][ ( /\ TagMode /\ AtLine
          /\ Head(pending).kind = "json"
          /\ Truthy(Head(pending).c)
          /\ Contains(CloseTag, Head(pending).c.s)
          /\ (is_collecting_think \/ Contains(OpenTag, Head(pending).c.s)) )
        => ( /\ out' = out \o <<Ev("reasoning", Head(pending).c.s), Ev("content", <<>>)>>
             /\ ~is_collecting_think' ) ]_vars

StartsWith(s, pre) == Len(s) >= Len(pre) /\ SubSeq(s, 1, Len(pre)) = pre

EndsWith(s, suf) == Len(s) >= Len(suf) /\ SubSeq(s, Len(s) - Len(suf) + 1, Len(s)) = suf

\* C4 as stated: in tag-sniff mode no text that precedes the opening tag or
\* follows the closing tag inside a delta is emitted as reasoning.
C4_ReasoningOnlyInsideTags ==
    TagMode =>
        \A i \in DOMAIN out :
            out[i].kind = "reasoning" =>
                /\ (Contains(OpenTag, out[i].text) => StartsWith(out[i].text, OpenTag))
                /\ (Contains(CloseTag, out[i].text) => EndsWith(out[i].text, CloseTag))

\* C4 amended: in tag-sniff mode every 'reasoning' event carries the whole
\* text of the delta being read, and that delta contains `<think>` or is read
\* while is_collecting_think is true.
C4_ReasoningIsWholeDeltaWhileCollecting ==
    [][ TagMode =>
          \A k \in (Len(out) + 1)..Len(out') :
              out'[k].kind = "reasoning" =>
                  /\ AtLine
                  /\ Head(pending).kind = "json"
                  /\ Truthy(Head(pending).c)
                  /\ out'[k].text = Head(pending).c.s
                  /\ (is_collecting_think \/ Contains(OpenTag, Head(pending).c.s)) ]_vars

\* a delta whose text came out as reasoning although it lies outside the tags
C4_Witness ==
    /\ TagMode
    /\ \E i \in DOMAIN out : out[i] = Ev("reasoning", <<"a">> \o OpenTag)
    /\ \E i \in DOMAIN out : out[i] = Ev("reasoning", CloseTag \o <<"b">>)

\* a well-formed delta line that yields an event when it is read
EventBearing(line) == line.kind = "json" /\ line.rc = Absent /\ Truthy(line.c)

\* C5: a malformed data line is dropped alone: no well-formed data line is
\* lost because a malformed line came before it.
C5_MalformedLineDroppedAlone ==
    \A i \in DOMAIN skipped :
        skipped[i].after.kind = "bad" => ~EventBearing(skipped[i].line)

\* C6: once a `data: [DONE]` line has been read the call has terminated and
\* yields nothing more, whatever the extractor state.
C6_NothingAfterDone ==
    /\ [](done_seen => pc = "returned")
    /\ [][done_seen => out' = out]_vars

\* [DONE] read while collecting inside <think>, with a line after it in the
\* same chunk
C6_Witness ==
    /\ done_seen /\ is_collecting_think /\ pending # <<>>
    /\ EventBearing(Head(pending))

\* C7: in native mode a delta with non-empty reasoning_content yields that
\* text as 'reasoning' and a delta with non-empty content yields that text as
\* 'content', whatever the other field holds.
C7_NativeFieldsIndependent ==
    [][ (NativeMode /\ AtLine /\ Head(pending).kind = "json") =>
          /\ Truthy(Head(pending).rc) =>
                \E k \in (Len(out) + 1)..Len(out') :
                    out'[k] = Ev("reasoning", Head(pending).rc.s)
          /\ Truthy(Head(pending).c) =>
                \E k \in (Len(out) + 1)..Len(out') :
                    out'[k] = Ev("content", Head(pending).c.s) ]_vars

\* C8: no yielded event has the empty string as text, except the
\* ('content', "") marker that tag-sniff mode yields right after the
\* 'reasoning' event of the delta containing `</think>`.
C8_NoEmptyTextButMarker ==
    \A i \in DOMAIN out :
        out[i].text = <<>> =>
            /\ TagMode
            /\ out[i].kind = "content"
            /\ i > 1
            /\ out[i - 1].kind = "reasoning"
            /\ Contains(CloseTag, out[i - 1].text)

\* the marker has been yielded, and a later line yielded nothing
C8_Witness ==
    /\ \E i \in DOMAIN out : out[i] = Ev("content", <<>>)
    /\ Len(out) = 3 /\ nread = MaxLines /\ pc = "read"

----------------------------------------------------------------------------
(* Properties of configuration and call set-up *)

\* C9: after a successful load_model_config both getters return the loaded
\* config and neither raises 'not initialized'.
C9_LoadedConfigSeenByAll ==
    loaded # NoConfig =>
        /\ ManagerGetModelConfig = [ok |-> TRUE, value |-> loaded]
        /\ GetModelConfig = [ok |-> TRUE, value |-> loaded]

\* C10: every chat call of either client on an existing base model obtains
\* the descriptor and issues exactly one POST, to the provider's base_url and
\* with the provider's use_proxy.
C10_EveryCallPostsOnce ==
    \A i \in DOMAIN calls :
        LET c   == calls[i]
            cfg == IF c.client = "deepseek" THEN deepseek_client.model_config
                   ELSE claude_client.model_config
        IN  c.base_model \in DOMAIN cfg.base_model_map =>
              LET provider == cfg.provider_map[cfg.base_model_map[c.base_model].provider]
              IN  /\ c.outcome = "posted"
                  /\ Len(c.posts) = 1
                  /\ c.posts[1].url = provider.base_url
                  /\ c.posts[1].use_proxy = provider.use_proxy

----------------------------------------------------------------------------
(* Properties of the configuration registry *)

\* the last query was `op` on the configuration that is held
Asked(op) == manager_model_config # NoConfig /\ lookup.op = op

\* C11: for a valid config and a base model name in it,
\* get_model_request_info returns the model_id of exactly that base model and
\* the base_url, api_key, type and use_proxy of exactly the provider that base
\* model references.
C11_RequestInfoOfReferencedProvider ==
    Asked("get_model_request_info") =>
        LET cfg == manager_model_config
        IN  \A i \in DOMAIN cfg.base_models :
                cfg.base_models[i].name = lookup.name =>
                    /\ lookup.ok
                    /\ \E j \in DOMAIN cfg.providers :
                          cfg.providers[j].name = cfg.base_models[i].provider
                    /\ \A j \in DOMAIN cfg.providers :
                          cfg.providers[j].name = cfg.base_models[i].provider =>
                              lookup.value.info =
                                  << cfg.base_models[i].model_id,
                                     cfg.providers[j].base_url,
                                     cfg.providers[j].api_key,
                                     cfg.providers[j].type,
                                     cfg.providers[j].use_proxy >>

\* the second base model of a config with two providers has been resolved
C11_Witness ==
    /\ Asked("get_model_request_info")
    /\ lookup.ok
    /\ Len(manager_model_config.providers) = 2
    /\ Len(manager_model_config.base_models) = 2
    /\ lookup.name = manager_model_config.base_models[2].name
    /\ manager_model_config.base_models[2].provider =
           manager_model_config.providers[2].name

Unique(list) == Len(list) = Cardinality(Names(list))

\* C12: loading rejects every config in which two providers, two base models
\* or two deep models share a name, so a held config has unique names in all
\* three lists.
C12_UniqueNamesOfEveryKind ==
    manager_model_config # NoConfig =>
        /\ Unique(manager_model_config.providers)
        /\ Unique(manager_model_config.base_models)
        /\ Unique(manager_model_config.deep_models)

\* C13: in every config that load accepts, each base model's provider names
\* an existing provider and each deep model's reason_model and answer_model
\* name existing base models: get_provider / get_base_model succeed for every
\* name reached from a stored deep model or base model.
C13_ReferencesResolve ==
    manager_model_config # NoConfig =>
        LET cfg == manager_model_config
        IN  /\ \A i \in DOMAIN cfg.base_models :
                  /\ cfg.base_models[i].provider \in Names(cfg.providers)
                  /\ GetProvider(cfg, cfg.base_models[i].provider).ok
            /\ \A i \in DOMAIN cfg.deep_models :
                  /\ cfg.deep_models[i].reason_model \in Names(cfg.base_models)
                  /\ cfg.deep_models[i].answer_model \in Names(cfg.base_models)
                  /\ GetBaseModel(cfg, cfg.deep_models[i].reason_model).ok
                  /\ GetBaseModel(cfg, cfg.deep_models[i].answer_model).ok

\* a config with two base models on two providers and two deep models, one of
\* them with different reason and answer models, is held
C13_Witness ==
    /\ manager_model_config # NoConfig
    /\ Len(manager_model_config.base_models) = 2
    /\ Len(manager_model_config.deep_models) = 2
    /\ manager_model_config.base_models[1].provider #
           manager_model_config.base_models[2].provider
    /\ \E i \in DOMAIN manager_model_config.deep_models :
          manager_model_config.deep_models[i].reason_model #
              manager_model_config.deep_models[i].answer_model

\* the three lists a ModelConfig was constructed from
Raw(cfg) ==
    [providers |-> cfg.providers, base_models |-> cfg.base_models,
     deep_models |-> cfg.deep_models]

\* C14: a load that fails validation leaves the held configuration exactly as
\* it was before the call (uninitialised, or the previously loaded config),
\* and the config get_model_config returns is always a fully validated one.
C14_FailedLoadKeepsHeldConfig ==
    /\ [][(nloads' = nloads + 1 /\ raised' # "") =>
             /\ manager_model_config' = manager_model_config
             /\ MODEL_CONFIG' = MODEL_CONFIG]_vars
    /\ [](ManagerGetModelConfig.ok =>
             ModelConfig(Raw(ManagerGetModelConfig.value)) =
                 [ok |-> TRUE, value |-> ManagerGetModelConfig.value])

\* a load has failed validation after an earlier load had succeeded
C14_Witness ==
    /\ nloads = 2
    /\ raised = "ValidationError"
    /\ manager_model_config # NoConfig
    /\ manager_model_config = loaded

\* C15: querying the config before any successful load fails with a 'not
\* initialized' error; after load, get_deep_model, get_base_model and
\* get_provider of a name that is not in the config fail with an error, and a
\* lookup that succeeds returns the entry of that name.
C15_MissingNamesFail ==
    /\ (lookup.op = "get_model_config" /\ manager_model_config = NoConfig) =>
           /\ ~lookup.ok
           /\ lookup.error = "Model config not initialized"
    /\ \A op \in {"get_deep_model", "get_base_model", "get_provider"} :
           Asked(op) =>
               LET cfg  == manager_model_config
                   list == IF op = "get_deep_model" THEN cfg.deep_models
                           ELSE IF op = "get_base_model" THEN cfg.base_models
                           ELSE cfg.providers
               IN  /\ lookup.name \notin Names(list) =>
                          ~lookup.ok /\ lookup.error = "ValueError"
                   /\ lookup.ok => lookup.value.name = lookup.name

\* a deep model name that the held, non-empty config does not have was looked up
C15_Witness ==
    /\ Asked("get_deep_model")
    /\ manager_model_config.deep_models # <<>>
    /\ lookup.name \notin Names(manager_model_config.deep_models)
    /\ ~lookup.ok

\* context window of the base model called `name`
ContextOf(cfg, name) ==
    LET i == CHOOSE k \in DOMAIN cfg.base_models : cfg.base_models[k].name = name
    IN  cfg.base_models[i].context

\* C20: after a successful load, the context recorded for every deep model is
\* the maximum of the context windows of its reason base model and its answer
\* base model.
C20_ContextIsMaxOfBoth ==
    manager_model_config # NoConfig =>
        LET cfg == manager_model_config
        IN  \A i \in DOMAIN cfg.deep_models :
                cfg.context_map[cfg.deep_models[i].name] =
                    Max(ContextOf(cfg, cfg.deep_models[i].reason_model),
                        ContextOf(cfg, cfg.deep_models[i].answer_model))

----------------------------------------------------------------------------
(* Properties of BaseClient._make_request *)

\* C16: for every upstream response whose status is not 2xx, _make_request
\* yields no chunk and fails with an error that carries the status and the
\* response body; only 2xx responses have their body streamed.
C16_OnlyTwoHundredsStreamed ==
    (response # NoResponse /\ response.status \notin 200..299) =>
        /\ yielded = <<>>
        /\ req_pc = "raised"
        /\ request_error =
               [type |-> "ClientError", status |-> response.status,
                text |-> response.text]

\* C17: the request is routed through the proxy if and only if use_proxy is
\* true and PROXY_URL was set; with use_proxy true and PROXY_URL unset it is
\* posted without a proxy after a warning, and with use_proxy false no proxy
\* is used even when PROXY_URL is set.
C17_ProxyIffAskedAndSet ==
    post # NoPost =>
        /\ post.proxy = IF post.use_proxy /\ PROXY_URL # None THEN PROXY_URL ELSE None
        /\ (post.use_proxy /\ PROXY_URL = None) => request_log = "warning"
        /\ req_pc # "idle"

\* use_proxy with PROXY_URL unset: the request went out without a proxy and
\* its body has been streamed
C17_Witness ==
    /\ post # NoPost
    /\ post.use_proxy
    /\ PROXY_URL = None
    /\ post.proxy = None
    /\ req_pc = "done"
    /\ yielded # <<>>

----------------------------------------------------------------------------
(* Properties of the request parameters *)

\* the temperature get_and_validate_params works with: the body's, or 0.5
TemperatureOf(b) == Get(b.temperature, PyFloat(5))

InUnitInterval(x) == 0 <= x.v /\ x.v <= 10

\* C18: get_and_validate_params rejects a request if and only if its model
\* name contains `sonnet` and its temperature lies outside [0, 1]; sonnet
\* requests with a temperature in [0, 1] (0, 1 and the default 0.5 included)
\* are accepted and no other model is rejected for its temperature.
C18_RejectsIffSonnetOutsideUnitInterval ==
    params # NoParams =>
        (~params.ok <=>
            /\ body.model # Missing
            /\ Contains(Sonnet, body.model.s)
            /\ ~InUnitInterval(TemperatureOf(body)))

\* C19: for all three provider kinds the temperature in the upstream request
\* body is within [0, 1]: the caller's temperature when that is in [0, 1],
\* and 1 otherwise.
C19_BodyTemperatureClamped ==
    chat_data # NoChatData =>
        /\ InUnitInterval(chat_data.temperature)
        /\ IF InUnitInterval(chat_args.model_arg[1])
           THEN chat_data.temperature = chat_args.model_arg[1]
           ELSE chat_data.temperature.v = 10

\* a body was built for the anthropic provider from a temperature of 1.5
C19_Witness ==
    /\ chat_data # NoChatData
    /\ chat_args.provider_type = "anthropic"
    /\ chat_args.model_arg[1] = PyFloat(15)
    /\ chat_data.temperature.v = 10

----------------------------------------------------------------------------
(* Further properties of the streaming loop *)

\* valid JSON that carries no usable delta
NoUsableDelta(line) ==
    line.kind = "json" /\ line.shape \in {"empty_choices", "no_delta", "scalar", "null"}

\* C25: a data line that is valid JSON but carries no usable delta yields no
\* event and does not abort the stream, in both clients: the call does not
\* end with an exception and the lines behind it are still handled.
C25_UnusableJsonSkippedAlone ==
    [][ (AtLine /\ NoUsableDelta(Head(pending))) =>
          /\ out' = out
          /\ pc' # "raised"
          /\ pending' = Tail(pending) ]_vars

RECURSIVE TextOf(_)
\* the texts of a sequence of events, concatenated
TextOf(events) ==
    IF events = <<>> THEN <<>> ELSE Head(events).text \o TextOf(Tail(events))

\* the line being iterated decodes to a delta with non-empty content
DecodesContent(line) == line.kind = "json" /\ HasDelta(line) /\ Truthy(line.c)

\* C24: in tag-sniff mode no text is lost or duplicated: every decoded delta
\* with non-empty content yields exactly one event carrying exactly that
\* delta's text (any other event of the step has empty text), every other
\* line yields no text, so the concatenation of the yielded texts grows by
\* exactly the content of each decoded delta, in order.
C24_TagSniffKeepsText ==
    [][ TagMode =>
          LET new == SubSeq(out', Len(out) + 1, Len(out'))
          IN  /\ SubSeq(out', 1, Len(out)) = out
              /\ IF AtLine /\ DecodesContent(Head(pending))
                 THEN /\ Cardinality({k \in DOMAIN new :
                                         new[k].text = Head(pending).c.s}) = 1
                      /\ \A k \in DOMAIN new :
                            /\ new[k].text \in {Head(pending).c.s, <<>>}
                            /\ new[k].kind \in {"reasoning", "content"}
                      /\ TextOf(out') = TextOf(out) \o Head(pending).c.s
                 ELSE TextOf(out') = TextOf(out) ]_vars

\* an opening delta, a closing delta with text behind the tag and a plain
\* delta have been read: three texts and the marker have been yielded
C24_Witness ==
    /\ TagMode
    /\ Len(out) = 4
    /\ out[1].kind = "reasoning"
    /\ out[2] = Ev("reasoning", CloseTag \o <<"b">>)
    /\ out[3] = Ev("content", <<>>)
    /\ out[4] = Ev("content", <<"x">>)

\* C26: the events a chat call yields depend only on the concatenated
\* upstream bytes, not on how the transport cut them into chunks: the stream
\* read in two chunks yields what it yields read in one.
C26_ChunkingDoesNotMatter ==
    (events_whole # NoEvents /\ events_split # NoEvents) =>
        events_split = events_whole

\* C21: two chat calls in flight on the same client, interleaved at chunk
\* reads, do not share extractor state: at every moment each call has yielded
\* a prefix of what it yields alone on its own upstream, and when it has
\* ended it has yielded exactly that.
C21_CallsDoNotShareState ==
    \A c \in DOMAIN running :
        LET alone == DeepSeekChat(running[c].all, FALSE)
            out_c == running[c].out
        IN  /\ Len(out_c) <= Len(alone)
            /\ SubSeq(alone, 1, Len(out_c)) = out_c
            /\ running[c].pc \in {"returned", "closed"} => out_c = alone

\* call 1 is inside <think> while call 2, started after it, has yielded
\* plain content and is still reading
C21_Witness ==
    /\ running # <<>>
    /\ running[1].pc = "read" /\ running[1].upstream # <<>>
    /\ running[2].pc = "read" /\ running[2].upstream # <<>>
    /\ extractor[Frame(1)].is_collecting_think
    /\ running[2].out = <<Ev("content", <<"x">>)>>

----------------------------------------------------------------------------
(* Further properties of the request body *)

\* C23: with a system_prompt and an OpenAI-compatible or OpenRouter provider
\* the messages sent are exactly one system message followed by the caller's
\* messages, and the caller's list is left unchanged (so a later call with
\* the same list again sends exactly one system message); for Anthropic the
\* messages are sent unchanged and the prompt is the `system` field.
C23_OneSystemMessageListUntouched ==
    chat_data # NoChatData =>
        /\ messages = chat_args.messages
        /\ IF chat_args.provider_type = "anthropic"
           THEN /\ chat_data.messages = chat_args.messages
                /\ chat_data.system = IF HasSystemPrompt(chat_args.system_prompt)
                                      THEN chat_args.system_prompt ELSE None
           ELSE chat_data.messages =
                    IF HasSystemPrompt(chat_args.system_prompt)
                    THEN <<Message("system", chat_args.system_prompt)>>
                             \o chat_args.messages
                    ELSE chat_args.messages

----------------------------------------------------------------------------
(* Properties of one streaming request *)

KindsOf(fs, kind) == SelectSeq(fs, LAMBDA f : f.kind = kind)

TextsOf(fs) == [i \in DOMAIN fs |-> fs[i].text]

\* C22: within one streaming request every reasoning_content frame is
\* written before every content frame, the frames of each kind carry the
\* texts of the upstream events in their arrival order, and `data: [DONE]`
\* is the last thing written.
C22_ReasoningThenContentThenDone ==
    /\ \A i, j \in DOMAIN frames :
          (frames[i].kind = "content" /\ frames[j].kind = "reasoning_content")
              => j < i
    /\ streams # NoStreams =>
          /\ TextsOf(KindsOf(frames, "reasoning_content")) =
                 TextsOf(KindsOf(SubSeq(streams.reason, 1, consumed.reason),
                                 "reasoning"))
          /\ TextsOf(KindsOf(frames, "content")) =
                 TextsOf(KindsOf(SubSeq(streams.answer, 1, consumed.answer),
                                 "answer"))
    /\ \A i \in DOMAIN frames : frames[i].kind = "done" => i = Len(frames)
    /\ phase = "done" => frames # <<>> /\ frames[Len(frames)] = DoneFrame

\* a finished request that wrote two different reasoning frames and two
\* different content frames
C22_Witness ==
    /\ phase = "done"
    /\ Len(KindsOf(frames, "reasoning_content")) >= 2
    /\ frames[1].text # frames[2].text
    /\ Len(KindsOf(frames, "content")) >= 2
    /\ frames[Len(frames) - 2].text # frames[Len(frames) - 3].text
    /\ frames[Len(frames)] = DoneFrame

====
